---- MODULE Spec2Model ----
\* Model of the ledger of agoston/rust-coding-test: src/src/ledger.rs
\* (Client transitions and Ledger::mutate) over the fixed-point Amount of
\* src/src/amount.rs.  An Amount is modelled by its scaled integer amount_fx4;
\* the ledger only adds, subtracts and compares amounts, and the values reached
\* within the bounds below are far away from the i64 limits.
EXTENDS Integers, Sequences, FiniteSets, TLC

\* ---------------------------------------------------------------- bounds
MaxSteps == 4            \* number of Ledger::mutate calls in a run

ClientIds == {1, 2}      \* u16 client ids used by the transactions
TxIds == {1, 2}          \* u64 transaction ids used by the transactions
\* scaled amounts carried by Deposit and Withdrawal rows
FundsAmounts == {-1, 1, 2}
\* scaled amounts carried by Dispute, Resolve and Chargeback rows; 0 is what
\* process_transactions supplies when the row has no amount field
ReferenceAmounts == {-1, 0, 1}
Amounts == FundsAmounts \cup ReferenceAmounts

\* ---------------------------------------------------------------- amount.rs
ZERO == 0

AmountAdd(a, b) == a + b
AmountSub(a, b) == a - b

\* ---------------------------------------------------------------- ledger.rs
TransactionKind == {"Deposit", "Withdrawal", "Dispute", "Resolve", "Chargeback"}

TransactionError ==
    {"NegativeBalance", "NegativeTransaction", "ClientLocked",
     "ReferencedTransactionNonexistent"}

FundsKind == {"Deposit", "Withdrawal"}
ReferenceKind == {"Dispute", "Resolve", "Chargeback"}

Transaction ==
    [id : TxIds, client_id : ClientIds, kind : FundsKind, amount : FundsAmounts]
    \cup [id : TxIds, client_id : ClientIds, kind : ReferenceKind,
          amount : ReferenceAmounts]

\* Result<Client, TransactionError>
Ok(c) == [tag |-> "Ok", client |-> c]
Err(e) == [tag |-> "Err", error |-> e]

ClientNew(id) == [id |-> id, available |-> ZERO, held |-> ZERO, locked |-> FALSE]

total(self) == AmountAdd(self.available, self.held)

deposit(self, amount) ==
    Ok([self EXCEPT !.available = AmountAdd(self.available, amount)])

withdrawal_ge(self, amount) ==
    IF amount >= self.available
    THEN Err("NegativeBalance")
    ELSE Ok([self EXCEPT !.available = AmountSub(self.available, amount)])

withdrawal(self, amount) ==
    IF amount > self.available
    THEN Err("NegativeBalance")
    ELSE Ok([self EXCEPT !.available = AmountSub(self.available, amount)])

dispute_availableOnly(self, amount) ==
    Ok([self EXCEPT !.available = AmountSub(self.available, amount)])

dispute(self, amount) ==
    Ok([self EXCEPT !.available = AmountSub(self.available, amount),
                    !.held = AmountAdd(self.held, amount)])

resolve_heldOnly(self, amount) ==
    Ok([self EXCEPT !.held = AmountSub(self.held, amount)])

resolve(self, amount) ==
    Ok([self EXCEPT !.available = AmountAdd(self.available, amount),
                    !.held = AmountSub(self.held, amount)])

chargeback_nolock(self, amount) ==
    Ok([self EXCEPT !.held = AmountSub(self.held, amount)])

chargeback_available(self, amount) ==
    Ok([self EXCEPT !.available = AmountSub(self.available, amount),
                    !.locked = TRUE])

chargeback(self, amount) ==
    Ok([self EXCEPT !.held = AmountSub(self.held, amount),
                    !.locked = TRUE])

\* HashMap::insert: the value stored under k is replaced
Insert(map, k, v) == [x \in DOMAIN map \cup {k} |-> IF x = k THEN v ELSE map[x]]

NegativeAmount_fundsOnly(transaction) ==
    /\ transaction.kind \in {"Deposit", "Withdrawal"}
    /\ transaction.amount < ZERO

\* sanity check: transaction amount is not negative
NegativeAmount(transaction) == transaction.amount < ZERO

OldClient(cl, transaction) ==
    IF transaction.client_id \in DOMAIN cl
    THEN cl[transaction.client_id]
    ELSE ClientNew(transaction.client_id)

ClientLocked_never(old_client) == FALSE

\* sanity check: locked clients can't do anything
ClientLocked(old_client) == old_client.locked

DepositArm_keyedByClient(old_client, txs, transaction) ==
    LET r == deposit(old_client, transaction.amount)
    IN  [result |-> r,
         transactions |-> IF r.tag = "Ok"
                          THEN Insert(txs, transaction.client_id, transaction)
                          ELSE txs]

\* the arms of `match transaction.kind`: the Result and the history after it
DepositArm(old_client, txs, transaction) ==
    LET r == deposit(old_client, transaction.amount)
    IN  [result |-> r,
         transactions |-> IF r.tag = "Ok"
                          THEN Insert(txs, transaction.id, transaction)
                          ELSE txs]

WithdrawalArm_always(old_client, txs, transaction) ==
    [result |-> withdrawal(old_client, transaction.amount),
     transactions |-> Insert(txs, transaction.id, transaction)]

WithdrawalArm(old_client, txs, transaction) ==
    LET r == withdrawal(old_client, transaction.amount)
    IN  [result |-> r,
         transactions |-> IF r.tag = "Ok"
                          THEN Insert(txs, transaction.id, transaction)
                          ELSE txs]

DisputeArm_ownAmount(old_client, txs, transaction) ==
    [result |-> IF transaction.id \in DOMAIN txs
                THEN dispute(old_client, transaction.amount)
                ELSE Err("ReferencedTransactionNonexistent"),
     transactions |-> txs]

DisputeArm_default(old_client, txs, transaction) ==
    [result |-> IF transaction.id \in DOMAIN txs
                THEN dispute(old_client, txs[transaction.id].amount)
                ELSE dispute(old_client, ZERO),
     transactions |-> txs]

DisputeArm(old_client, txs, transaction) ==
    [result |-> IF transaction.id \in DOMAIN txs
                THEN dispute(old_client, txs[transaction.id].amount)
                ELSE Err("ReferencedTransactionNonexistent"),
     transactions |-> txs]

ResolveArm(old_client, txs, transaction) ==
    [result |-> IF transaction.id \in DOMAIN txs
                THEN resolve(old_client, txs[transaction.id].amount)
                ELSE Err("ReferencedTransactionNonexistent"),
     transactions |-> txs]

ChargebackArm(old_client, txs, transaction) ==
    [result |-> IF transaction.id \in DOMAIN txs
                THEN chargeback(old_client, txs[transaction.id].amount)
                ELSE Err("ReferencedTransactionNonexistent"),
     transactions |-> txs]

Dispatch(old_client, txs, transaction) ==
    CASE transaction.kind = "Deposit" -> DepositArm(old_client, txs, transaction)
      [] transaction.kind = "Withdrawal" -> WithdrawalArm(old_client, txs, transaction)
      [] transaction.kind = "Dispute" -> DisputeArm(old_client, txs, transaction)
      [] transaction.kind = "Resolve" -> ResolveArm(old_client, txs, transaction)
      [] transaction.kind = "Chargeback" -> ChargebackArm(old_client, txs, transaction)

\* Ledger::mutate with the account looked up through an inserting entry():
\* the account is created before the checks run
Mutate_entry(cl, txs, transaction) ==
    LET old_client == OldClient(cl, transaction)
        cl0 == Insert(cl, transaction.client_id, old_client)
    IN  IF NegativeAmount(transaction)
        THEN [result |-> Err("NegativeTransaction"), clients |-> cl0, transactions |-> txs]
        ELSE IF ClientLocked(old_client)
        THEN [result |-> Err("ClientLocked"), clients |-> cl0, transactions |-> txs]
        ELSE LET d == Dispatch(old_client, txs, transaction)
             IN  IF d.result.tag = "Err"
                 THEN [result |-> d.result, clients |-> cl0, transactions |-> d.transactions]
                 ELSE [result |-> d.result,
                       clients |-> Insert(cl, transaction.client_id, d.result.client),
                       transactions |-> d.transactions]

\* Ledger::mutate: the Result and the two maps of the ledger after the call
Mutate(cl, txs, transaction) ==
    IF NegativeAmount(transaction)
    THEN [result |-> Err("NegativeTransaction"), clients |-> cl, transactions |-> txs]
    ELSE LET old_client == OldClient(cl, transaction)
         IN  IF ClientLocked(old_client)
             THEN [result |-> Err("ClientLocked"), clients |-> cl, transactions |-> txs]
             ELSE LET d == Dispatch(old_client, txs, transaction)
                  IN  IF d.result.tag = "Err"
                      THEN [result |-> d.result, clients |-> cl,
                            transactions |-> d.transactions]
                      ELSE [result |-> d.result,
                            clients |-> Insert(cl, transaction.client_id, d.result.client),
                            transactions |-> d.transactions]

\* ---------------------------------------------------------------- state
VARIABLES
    clients,         \* Ledger.clients: client id -> Client
    transactions,    \* Ledger.transactions: transaction id -> Transaction
    lastTx,          \* the argument of the latest Ledger::mutate call
    lastResult,      \* what that call returned
    disputeStatus,   \* per recorded id, the latest dispute-class row mutate accepted
    steps,           \* number of mutate calls so far
    accepted,        \* process_transactions: the rows ledger.mutate accepted so far
    seen,            \* process_transactions: the client ids of the rows read so far
    output,          \* process_transactions: the ApiClient records written
    pc,              \* which run this is and how far it has got
    src,             \* the input a run of a pure function was given
    text,            \* the text an Amount run currently holds
    value,           \* the Result the latest function of such a run returned
    pairRun          \* two transactions and the outcome of applying them in
                     \* either order

ledger == <<clients, transactions, lastTx, lastResult, disputeStatus, steps>>
aux == <<accepted, seen, output, pc, src, text, value, pairRun>>
vars == <<clients, transactions, lastTx, lastResult, disputeStatus, steps,
          accepted, seen, output, pc, src, text, value, pairRun>>

EmptyMap == [x \in {} |-> 0]
NoTx == [id |-> 0, client_id |-> 0, kind |-> "None", amount |-> ZERO]
NoResult == [tag |-> "None"]

\* The dispute status an id has after mutate returned `result` for `transaction`:
\* Normal once recorded, then named after the latest accepted dispute-class row.
NextDisputeStatus(status, transaction, result) ==
    IF result.tag = "Err" THEN status
    ELSE CASE transaction.kind \in {"Deposit", "Withdrawal"} ->
                IF transaction.id \in DOMAIN status THEN status
                ELSE Insert(status, transaction.id, "Normal")
           [] transaction.kind = "Dispute" -> Insert(status, transaction.id, "Disputed")
           [] transaction.kind = "Resolve" -> Insert(status, transaction.id, "Resolved")
           [] transaction.kind = "Chargeback" -> Insert(status, transaction.id, "ChargedBack")

NoValue == [tag |-> "None"]

\* Ledger::new, before any call
LedgerInit ==
    /\ clients = EmptyMap
    /\ transactions = EmptyMap
    /\ lastTx = NoTx
    /\ lastResult = NoResult
    /\ disputeStatus = EmptyMap
    /\ steps = 0

\* the variables of the other runs, at rest
StreamIdle == accepted = <<>> /\ seen = {} /\ output = {}
FunctionIdle == src = NoValue /\ text = <<>> /\ value = NoValue
PairIdle == pairRun = NoValue

Init ==
    /\ LedgerInit
    /\ StreamIdle
    /\ FunctionIdle
    /\ PairIdle
    /\ pc = "ledger"

MutateCall(transaction) ==
    /\ steps < MaxSteps
    /\ LET m == Mutate(clients, transactions, transaction)
       IN  /\ clients' = m.clients
           /\ transactions' = m.transactions
           /\ lastResult' = m.result
           /\ disputeStatus' = NextDisputeStatus(disputeStatus, transaction, m.result)
    /\ lastTx' = transaction
    /\ steps' = steps + 1
    /\ UNCHANGED aux

Next == \E transaction \in Transaction : MutateCall(transaction)

Spec == Init /\ [][Next]_vars

\* ---------------------------------------------------------------- Client runs
\* A run of the pure Client transitions on an account state drawn from a
\* bounded set: dispute(x), then resolve(x).
MaxBalance == 3          \* largest |available|, |held| and x of a Client run

ClientStates ==
    [id : {1}, available : -MaxBalance..MaxBalance, held : -MaxBalance..MaxBalance,
     locked : BOOLEAN]

ClientInit ==
    /\ LedgerInit
    /\ StreamIdle
    /\ PairIdle
    /\ pc = "client"
    /\ src \in [state : ClientStates, x : 0..MaxBalance]
    /\ text = <<>>
    /\ value = NoValue

ApplyDispute ==
    /\ pc = "client"
    /\ value' = dispute(src.state, src.x)
    /\ pc' = "disputed"
    /\ UNCHANGED <<ledger, accepted, seen, output, src, text, pairRun>>

ApplyResolve ==
    /\ pc = "disputed"
    /\ value.tag = "Ok"
    /\ value' = resolve(value.client, src.x)
    /\ pc' = "resolved"
    /\ UNCHANGED <<ledger, accepted, seen, output, src, text, pairRun>>

ClientNext == ApplyDispute \/ ApplyResolve

SpecClient == ClientInit /\ [][ClientNext]_vars

\* ---------------------------------------------------------------- Amount text
\* Text is a sequence of one-character strings.  Amount::from_str and
\* Display::fmt of src/src/amount.rs, with the integer parsers of the standard
\* library they call (i64 for the whole part, u32 for the fraction).
SCALE == 10000

Digits == <<"0", "1", "2", "3", "4", "5", "6", "7", "8", "9">>
IsDigit(c) == \E i \in 1..10 : Digits[i] = c
DigitValue(c) == (CHOOSE i \in 1..10 : Digits[i] = c) - 1

I64MaxDigits ==
    <<"9", "2", "2", "3", "3", "7", "2", "0", "3", "6", "8", "5", "4", "7", "7",
      "5", "8", "0", "7">>
I64MinDigits ==
    <<"9", "2", "2", "3", "3", "7", "2", "0", "3", "6", "8", "5", "4", "7", "7",
      "5", "8", "0", "8">>
U32MaxDigits == <<"4", "2", "9", "4", "9", "6", "7", "2", "9", "5">>

OkAmount(a) == [tag |-> "Ok", amount |-> a]

\* i64 `/` and `%`: the quotient is truncated towards zero, the remainder has
\* the sign of the dividend
TruncDiv(a, b) == IF a >= 0 THEN a \div b ELSE -((-a) \div b)
Rem(a, b) == a - b * TruncDiv(a, b)
Abs(a) == IF a < 0 THEN -a ELSE a

RECURSIVE StripLeadingZeros(_)
StripLeadingZeros(ds) ==
    IF ds # <<>> /\ Head(ds) = "0" THEN StripLeadingZeros(Tail(ds)) ELSE ds

\* the number written by the digits ds is greater than the one written by max
RECURSIVE DigitsGreater(_, _)
DigitsGreater(ds, max) ==
    IF Len(ds) # Len(max) THEN Len(ds) > Len(max)
    ELSE IF ds = <<>> THEN FALSE
    ELSE IF Head(ds) # Head(max) THEN DigitValue(Head(ds)) > DigitValue(Head(max))
    ELSE DigitsGreater(Tail(ds), Tail(max))

RECURSIVE DigitsNumber(_)
DigitsNumber(ds) ==
    IF ds = <<>> THEN 0
    ELSE 10 * DigitsNumber(SubSeq(ds, 1, Len(ds) - 1)) + DigitValue(ds[Len(ds)])

\* <integer>::from_str: an optional sign ('-' only for a signed type), then
\* one or more digits, the value within the type's range.  The Ok value is
\* left as its sign and digits.
ParseInteger(str, signed, maxDigits, minDigits) ==
    IF str = <<>> THEN Err("Empty")
    ELSE IF Len(str) = 1 /\ Head(str) \in {"+", "-"} THEN Err("InvalidDigit")
    ELSE LET negative == signed /\ Head(str) = "-"
             digits == IF Head(str) = "+" \/ negative THEN Tail(str) ELSE str
         IN  IF \E i \in DOMAIN digits : ~IsDigit(digits[i])
             THEN Err("InvalidDigit")
             ELSE IF DigitsGreater(StripLeadingZeros(digits),
                                   IF negative THEN minDigits ELSE maxDigits)
             THEN Err(IF negative THEN "NegOverflow" ELSE "PosOverflow")
             ELSE [tag |-> "Ok", negative |-> negative,
                   digits |-> StripLeadingZeros(digits)]

ParseI64(str) == ParseInteger(str, TRUE, I64MaxDigits, I64MinDigits)
ParseU32(str) == ParseInteger(str, FALSE, U32MaxDigits, <<>>)
IntegerValue(r) == IF r.negative THEN -DigitsNumber(r.digits) ELSE DigitsNumber(r.digits)

\* str::split('.'): the pieces between the dots, at least one
RECURSIVE SplitDot(_)
SplitDot(s) ==
    IF \E i \in DOMAIN s : s[i] = "."
    THEN LET i == CHOOSE j \in DOMAIN s :
                     s[j] = "." /\ \A k \in 1..(j - 1) : s[k] # "."
         IN  <<SubSeq(s, 1, i - 1)>> \o SplitDot(SubSeq(s, i + 1, Len(s)))
    ELSE <<s>>

RECURSIVE Pow10(_)
Pow10(n) == IF n = 0 THEN 1 ELSE 10 * Pow10(n - 1)

AmountNew(whole, fraction) ==
    IF whole >= 0
    THEN whole * SCALE + fraction
    ELSE whole * SCALE - fraction

\* impl FromStr for Amount
from_str(s) ==
    LET split_input == SplitDot(s)
    IN  IF split_input = <<>> THEN Err("NoInput")
        ELSE LET whole_r == ParseI64(split_input[1])
             IN  IF whole_r.tag = "Err" THEN Err("Malformed")
                 ELSE IF Len(split_input) < 2
                 THEN OkAmount(AmountNew(IntegerValue(whole_r), 0))
                 ELSE LET fraction_str == split_input[2]
                          fraction_len == Len(fraction_str)
                          fraction_r == ParseU32(fraction_str)
                      IN  IF fraction_r.tag = "Err" THEN Err("Malformed")
                          ELSE IF fraction_len = 0 THEN Err("Malformed")
                          ELSE IF fraction_len <= 4
                          THEN OkAmount(AmountNew(IntegerValue(whole_r),
                                   IntegerValue(fraction_r) * Pow10(4 - fraction_len)))
                          ELSE Err("PrecisionTooHigh")

RECURSIVE NatToString(_)
NatToString(n) ==
    IF n < 10 THEN <<Digits[n + 1]>>
    ELSE NatToString(n \div 10) \o <<Digits[(n % 10) + 1]>>

\* "{}" of an i64
I64ToString(n) == IF n < 0 THEN <<"-">> \o NatToString(-n) ELSE NatToString(n)

\* "{:0width$}" of a non-negative i64
RECURSIVE ZeroPad(_, _)
ZeroPad(str, width) ==
    IF Len(str) >= width THEN str ELSE ZeroPad(<<"0">> \o str, width)

\* the `while fraction % 10 == 0` loop of fmt
RECURSIVE StripEndingZeroes(_, _)
StripEndingZeroes(fraction, width) ==
    IF fraction % 10 = 0
    THEN StripEndingZeroes(fraction \div 10, width - 1)
    ELSE [fraction |-> fraction, width |-> width]

\* impl fmt::Display for Amount
fmt(amount_fx4) ==
    LET whole == TruncDiv(amount_fx4, SCALE)
        fraction == Abs(Rem(amount_fx4, SCALE))
    IN  IF fraction = 0
        THEN I64ToString(whole)
        ELSE LET stripped == StripEndingZeroes(fraction, 4)
             IN  I64ToString(whole) \o <<".">>
                   \o ZeroPad(NatToString(stripped.fraction), stripped.width)

\* ---------------------------------------------------------------- Amount runs
\* A run starts from an Amount, formats it and parses the text; or starts from
\* a text, parses it and, when that gave an Amount, formats it.
MaxScaled == 12000       \* largest |amount_fx4| an Amount run starts from
MaxFracLen == 10         \* longest fraction of a text an Amount run starts from

AmountValues == -MaxScaled..MaxScaled

RECURSIVE Strings(_, _)
Strings(alphabet, n) ==
    IF n = 0 THEN {<<>>}
    ELSE LET shorter == Strings(alphabet, n - 1)
         IN  shorter \cup {<<c>> \o t : c \in alphabet,
                                        t \in {u \in shorter : Len(u) = n - 1}}

Repeat(c, n) == [i \in 1..n |-> c]

WholeTexts ==
    {sign \o w : sign \in {<<>>, <<"-">>, <<"+">>},
                 w \in {<<>>, <<"0">>, <<"1">>, <<"1", "2">>, <<"x">>}}
FractionTexts ==
    Strings({"0", "5"}, 5)
      \cup {Repeat(c, n) : c \in {"0", "9"}, n \in 5..MaxFracLen}
      \cup {<<"x">>, <<"+", "5">>, <<"-", "5">>, <<"5", ".", "5">>}
Texts ==
    WholeTexts \cup {w \o <<".">> \o f : w \in WholeTexts, f \in FractionTexts}

AmountInit ==
    /\ LedgerInit
    /\ StreamIdle
    /\ PairIdle
    /\ src \in [kind : {"amount"}, amount : AmountValues]
                \cup [kind : {"text"}, text : Texts]
    /\ pc = IF src.kind = "amount" THEN "format1" ELSE "parse1"
    /\ text = IF src.kind = "amount" THEN <<>> ELSE src.text
    /\ value = IF src.kind = "amount" THEN OkAmount(src.amount) ELSE NoValue

FormatAmount ==
    /\ pc \in {"format1", "format2"}
    /\ value.tag = "Ok"
    /\ text' = fmt(value.amount)
    /\ pc' = IF pc = "format1" THEN "parse2" ELSE "done"
    /\ UNCHANGED <<ledger, accepted, seen, output, src, value, pairRun>>

ParseText ==
    /\ pc \in {"parse1", "parse2"}
    /\ value' = from_str(text)
    /\ pc' = IF pc = "parse1" /\ from_str(text).tag = "Ok" THEN "format2" ELSE "done"
    /\ UNCHANGED <<ledger, accepted, seen, output, src, text, pairRun>>

AmountNext == FormatAmount \/ ParseText

SpecAmount == AmountInit /\ [][AmountNext]_vars

\* ---------------------------------------------------------------- main.rs
\* process_transactions: one ledger.mutate call per row, its Result dropped;
\* a row that does not parse ends the run with an error and no output; at the
\* end of the stream one ApiClient record per entry of the account map.
MaxRows == 3             \* number of rows of a stream

ApiClient(client) ==
    [client |-> client.id, available |-> client.available, held |-> client.held,
     total |-> total(client), locked |-> client.locked]

StreamInit ==
    /\ LedgerInit
    /\ StreamIdle
    /\ FunctionIdle
    /\ PairIdle
    /\ pc = "stream"

ProcessRow_stopOnError(transaction) ==
    /\ pc = "stream"
    /\ steps < MaxRows
    /\ LET m == Mutate(clients, transactions, transaction)
       IN  /\ clients' = m.clients
           /\ transactions' = m.transactions
           /\ accepted' = IF m.result.tag = "Ok"
                          THEN Append(accepted, transaction)
                          ELSE accepted
           /\ pc' = IF m.result.tag = "Ok" THEN "stream" ELSE "failed"
    /\ seen' = seen \cup {transaction.client_id}
    /\ steps' = steps + 1
    /\ UNCHANGED <<lastTx, lastResult, disputeStatus, output, src, text, value,
                   pairRun>>

ProcessRow(transaction) ==
    /\ pc = "stream"
    /\ steps < MaxRows
    /\ LET m == Mutate(clients, transactions, transaction)
       IN  /\ clients' = m.clients
           /\ transactions' = m.transactions
           /\ accepted' = IF m.result.tag = "Ok"
                          THEN Append(accepted, transaction)
                          ELSE accepted
    /\ seen' = seen \cup {transaction.client_id}
    /\ steps' = steps + 1
    /\ UNCHANGED <<lastTx, lastResult, disputeStatus, output, pc, src, text, value,
                   pairRun>>

\* a record whose kind, client, tx or amount does not parse: `?` returns the error
MalformedRow ==
    /\ pc = "stream"
    /\ steps < MaxRows
    /\ pc' = "failed"
    /\ UNCHANGED <<ledger, accepted, seen, output, src, text, value, pairRun>>

\* end of the stream: the records are serialized and flushed
WriteOutput ==
    /\ pc = "stream"
    /\ output' = {ApiClient(clients[c]) : c \in DOMAIN clients}
    /\ pc' = "done"
    /\ UNCHANGED <<ledger, accepted, seen, src, text, value, pairRun>>

StreamNext ==
    \/ \E transaction \in Transaction : ProcessRow(transaction)
    \/ MalformedRow
    \/ WriteOutput

SpecStream == StreamInit /\ [][StreamNext]_vars

\* ---------------------------------------------------------------- pairs
\* A run that applies some rows to a new Ledger and then two transactions of
\* different clients, in the order given; beside it, what the other order
\* would have left and returned.
MaxPrefix == 2           \* number of rows applied before the pair

\* what applying `first` and then `second` leaves and returns; the Results are
\* listed as <<that of a, that of b>>
InOrder(cl, txs, a, b, aFirst) ==
    LET first == IF aFirst THEN a ELSE b
        second == IF aFirst THEN b ELSE a
        m1 == Mutate(cl, txs, first)
        m2 == Mutate(m1.clients, m1.transactions, second)
    IN  [clients |-> m2.clients, transactions |-> m2.transactions,
         results |-> IF aFirst THEN <<m1.result, m2.result>>
                     ELSE <<m2.result, m1.result>>]

PairInit ==
    /\ LedgerInit
    /\ StreamIdle
    /\ FunctionIdle
    /\ PairIdle
    /\ pc = "pair"

ApplyRow(transaction) ==
    /\ pc = "pair"
    /\ steps < MaxPrefix
    /\ LET m == Mutate(clients, transactions, transaction)
       IN  /\ clients' = m.clients
           /\ transactions' = m.transactions
    /\ steps' = steps + 1
    /\ UNCHANGED <<lastTx, lastResult, disputeStatus, aux>>

ApplyPair(a, b) ==
    /\ pc = "pair"
    /\ a.client_id < b.client_id    \* the pairs with a, b exchanged are the same runs
    /\ LET ab == InOrder(clients, transactions, a, b, TRUE)
           ba == InOrder(clients, transactions, a, b, FALSE)
       IN  /\ clients' = ab.clients
           /\ transactions' = ab.transactions
           /\ pairRun' = [a |-> a, b |-> b, ab |-> ab, ba |-> ba]
    /\ pc' = "paired"
    /\ UNCHANGED <<lastTx, lastResult, disputeStatus, steps, accepted, seen,
                   output, src, text, value>>

PairNext ==
    \/ \E transaction \in Transaction : ApplyRow(transaction)
    \/ pc = "pair" /\ \E a, b \in Transaction : ApplyPair(a, b)

SpecPair == PairInit /\ [][PairNext]_vars

\* ---------------------------------------------------------------- properties
\* The account a transaction acts on, as Ledger::mutate sees it before the call.
Target(t) == OldClient(clients, t)
Stored(cl, c) == cl[c]

\* C1: after any sequence of mutate calls every stored account has
\* available >= 0 and held >= 0.
C1_BalancesNonNegative ==
    \A c \in DOMAIN clients :
        clients[c].available >= ZERO /\ clients[c].held >= ZERO

\* C2 (as stated): a successful Chargeback leaves the account locked, and every
\* later mutate call for a locked account fails with ClientLocked whatever its
\* kind, amount and transaction id.
C2_LockedAlwaysClientLocked ==
    [][LET t == lastTx'
       IN  /\ (t.kind = "Chargeback" /\ lastResult'.tag = "Ok")
                => clients'[t.client_id].locked
           /\ Target(t).locked
                => /\ lastResult' = Err("ClientLocked")
                   /\ clients'[t.client_id].locked]_vars

\* C2 (amended): a successful Chargeback leaves the account locked, and every
\* later mutate call for that account fails and leaves it locked: with
\* NegativeTransaction when the amount is negative, with ClientLocked otherwise.
C2_ChargebackTerminal ==
    [][LET t == lastTx'
       IN  /\ (t.kind = "Chargeback" /\ lastResult'.tag = "Ok")
                => clients'[t.client_id].locked
           /\ Target(t).locked
                => /\ lastResult' = IF t.amount < ZERO
                                    THEN Err("NegativeTransaction")
                                    ELSE Err("ClientLocked")
                   /\ clients'[t.client_id].locked]_vars

\* C2 witness: a call with a non-negative amount was refused with ClientLocked
\* on an account that an earlier Chargeback locked.
C2_Witness ==
    /\ lastResult = Err("ClientLocked")
    /\ lastTx.kind = "Deposit"
    /\ lastTx.client_id \in DOMAIN clients
    /\ clients[lastTx.client_id].locked

\* C3: every mutate call leaves each locked account stored exactly as it was
\* (available, held, locked), and a call that targets a locked account
\* returns an error.
C3_LockedFrozen ==
    [][\A c \in DOMAIN clients :
          clients[c].locked
            => /\ c \in DOMAIN clients'
               /\ Stored(clients', c) = Stored(clients, c)
               /\ lastTx'.client_id = c => lastResult'.tag = "Err"]_vars

\* C3 witness: a Resolve of a recorded transaction was refused on a locked
\* account whose held balance it would have changed.
C3_Witness ==
    /\ lastResult.tag = "Err"
    /\ lastTx.kind = "Resolve"
    /\ lastTx.amount >= ZERO
    /\ lastTx.id \in DOMAIN transactions
    /\ transactions[lastTx.id].amount > ZERO
    /\ lastTx.client_id \in DOMAIN clients
    /\ clients[lastTx.client_id].locked

\* C4: whenever mutate returns an error the account map is what it was before
\* the call: no entry changed, no entry created.
C4_ErrorLeavesAccounts ==
    [][lastResult'.tag = "Err" => clients' = clients]_vars

\* C4 witness: the first transaction of an unseen account failed (a Withdrawal
\* without funds) and the map has no entry for that account.
C4_Witness ==
    /\ lastResult = Err("NegativeBalance")
    /\ lastTx.kind = "Withdrawal"
    /\ lastTx.client_id \notin DOMAIN clients

\* C5: on an unlocked account a Dispute of a recorded transaction that is not
\* Normal, and a Resolve or Chargeback of a recorded transaction that is not
\* Disputed, is rejected with InvalidDisputeState and changes no account.
C5_DisputeSequence ==
    [][LET t == lastTx'
       IN  ( /\ t.kind \in ReferenceKind
             /\ t.amount >= ZERO
             /\ ~Target(t).locked
             /\ t.id \in DOMAIN disputeStatus
             /\ \/ t.kind = "Dispute" /\ disputeStatus[t.id] # "Normal"
                \/ t.kind \in {"Resolve", "Chargeback"}
                     /\ disputeStatus[t.id] # "Disputed" )
           => /\ lastResult' = Err("InvalidDisputeState")
              /\ clients' = clients]_vars

\* C6: a Withdrawal of x >= 0 on an unlocked account fails, with
\* NegativeBalance (insufficient funds), iff x > available; when it succeeds
\* available and total decrease by exactly x, held and locked are unchanged.
C6_WithdrawalGuard ==
    [][LET t == lastTx'
           old == Target(t)
           x == t.amount
       IN  (t.kind = "Withdrawal" /\ x >= ZERO /\ ~old.locked)
           => /\ (lastResult'.tag = "Err") <=> (x > old.available)
              /\ lastResult'.tag = "Err" => lastResult' = Err("NegativeBalance")
              /\ lastResult'.tag = "Ok"
                   => /\ t.client_id \in DOMAIN clients'
                      /\ lastResult'.client = clients'[t.client_id]
                      /\ clients'[t.client_id].available = old.available - x
                      /\ clients'[t.client_id].held = old.held
                      /\ clients'[t.client_id].locked = old.locked
                      /\ total(clients'[t.client_id]) = total(old) - x]_vars

\* C6 witness: a Withdrawal of a positive amount succeeded and left funds.
C6_Witness ==
    /\ lastTx.kind = "Withdrawal"
    /\ lastTx.amount > ZERO
    /\ lastResult.tag = "Ok"
    /\ clients[lastTx.client_id].available > ZERO

\* C7: a transaction of any kind with amount < 0 is rejected with
\* NegativeTransaction whatever the state of its account, and leaves accounts
\* and history unchanged.
C7_NegativeRejected ==
    [][lastTx'.amount < ZERO
         => /\ lastResult' = Err("NegativeTransaction")
            /\ clients' = clients
            /\ transactions' = transactions]_vars

\* C7 witness: a Chargeback of a recorded transaction carrying a negative
\* amount was rejected with NegativeTransaction on an existing account.
C7_Witness ==
    /\ lastResult = Err("NegativeTransaction")
    /\ lastTx.kind = "Chargeback"
    /\ lastTx.id \in DOMAIN transactions
    /\ lastTx.client_id \in DOMAIN clients

\* What a successful Deposit or Withdrawal does to its account and the history.
FundsEffectOnly(t, old, new, txs) ==
    /\ new.held = old.held
    /\ new.locked = old.locked
    /\ new.available = IF t.kind = "Deposit"
                       THEN old.available + t.amount
                       ELSE old.available - t.amount
    /\ txs[t.id] = t

\* C8 (as stated): a Dispute, Resolve or Chargeback whose id has no record in
\* the history fails with ReferencedTransactionNonexistent and leaves the
\* ledger unchanged.
C8_MissingReferenceError ==
    [][LET t == lastTx'
       IN  (t.kind \in ReferenceKind /\ t.id \notin DOMAIN transactions)
           => /\ lastResult' = Err("ReferencedTransactionNonexistent")
              /\ clients' = clients
              /\ transactions' = transactions]_vars

\* C8 (amended): such a row always fails and leaves accounts and history
\* unchanged; the error is NegativeTransaction when its amount is negative,
\* else ClientLocked when its account is locked, else
\* ReferencedTransactionNonexistent.  A Deposit/Withdrawal that succeeds
\* (whether or not its id was referenced before) has only its own effect.
C8_MissingReference ==
    [][LET t == lastTx'
       IN  /\ (t.kind \in ReferenceKind /\ t.id \notin DOMAIN transactions)
                => /\ lastResult' =
                        IF t.amount < ZERO THEN Err("NegativeTransaction")
                        ELSE IF Target(t).locked THEN Err("ClientLocked")
                        ELSE Err("ReferencedTransactionNonexistent")
                   /\ clients' = clients
                   /\ transactions' = transactions
           /\ (t.kind \in FundsKind /\ lastResult'.tag = "Ok")
                => FundsEffectOnly(t, Target(t), clients'[t.client_id],
                                   transactions')]_vars

\* C8 witness: a Dispute of an unrecorded id was refused with
\* ReferencedTransactionNonexistent on an account that holds funds.
C8_Witness ==
    /\ lastResult = Err("ReferencedTransactionNonexistent")
    /\ lastTx.kind = "Dispute"
    /\ lastTx.id \notin DOMAIN transactions
    /\ lastTx.client_id \in DOMAIN clients
    /\ clients[lastTx.client_id].available > ZERO

\* The same row with another amount field.
WithAmount(t, a) == [t EXCEPT !.amount = a]

\* What Ledger::mutate returned and left behind in the step just taken.
Outcome(result, cl, txs) == [result |-> result, clients |-> cl, transactions |-> txs]

\* C9 (as stated): for a Dispute, Resolve or Chargeback of a recorded id the
\* outcome of mutate is the one the same row has with any other amount field.
C9_RowAmountIgnored ==
    [][LET t == lastTx'
       IN  (t.kind \in ReferenceKind /\ t.id \in DOMAIN transactions)
           => \A a \in ReferenceAmounts :
                 Mutate(clients, transactions, WithAmount(t, a))
                   = Outcome(lastResult', clients', transactions')]_vars

\* C9 (amended): a row with a negative amount is rejected with
\* NegativeTransaction; the outcome of a row with a non-negative amount is the
\* one the same row has with any other non-negative amount field.
C9_NonNegativeRowAmountIgnored ==
    [][LET t == lastTx'
       IN  (t.kind \in ReferenceKind /\ t.id \in DOMAIN transactions)
           => /\ t.amount < ZERO => lastResult' = Err("NegativeTransaction")
              /\ t.amount >= ZERO
                   => \A a \in {b \in ReferenceAmounts : b >= ZERO} :
                         Mutate(clients, transactions, WithAmount(t, a))
                           = Outcome(lastResult', clients', transactions')]_vars

\* C9 witness: a Dispute carrying amount 1 of a transaction recorded with
\* amount 2 succeeded and moved 2 into held.
C9_Witness ==
    /\ lastTx.kind = "Dispute"
    /\ lastTx.amount = 1
    /\ lastResult.tag = "Ok"
    /\ lastTx.id \in DOMAIN transactions
    /\ transactions[lastTx.id].amount = 2
    /\ lastResult.client.held = 2
    /\ lastResult.client.available = 0

\* C10: the record stored in the history under an id is never changed by a
\* later mutate call.
C10_HistoryWriteOnce ==
    [][\A k \in DOMAIN transactions :
          k \in DOMAIN transactions' /\ transactions'[k] = transactions[k]]_vars

\* C11: for every account state and every x with 0 <= x <= available,
\* dispute(x) followed by resolve(x) returns exactly the original state.
C11_DisputeResolveInverse ==
    (pc = "resolved" /\ src.x >= ZERO /\ src.x <= src.state.available)
    => value = Ok(src.state)

\* C11 witness: dispute and resolve of a positive x have run on a locked
\* account that already held funds.
C11_Witness ==
    /\ pc = "resolved"
    /\ src.x > ZERO
    /\ src.x <= src.state.available
    /\ src.state.held > ZERO
    /\ src.state.locked
    /\ value.tag = "Ok"

\* C12: a successful Chargeback of a recorded transaction of amount x subtracts
\* x from held, leaves available unchanged and sets locked; Deposit(x),
\* Dispute, Chargeback of one id on a fresh account ends with available 0,
\* held 0, total 0, locked.
C12_ChargebackEffect ==
    [][LET t == lastTx'
           old == Target(t)
       IN  /\ (t.kind = "Chargeback" /\ lastResult'.tag = "Ok")
                => /\ t.id \in DOMAIN transactions
                   /\ lastResult'.client = clients'[t.client_id]
                   /\ clients'[t.client_id].held
                        = old.held - transactions[t.id].amount
                   /\ clients'[t.client_id].available = old.available
                   /\ clients'[t.client_id].locked
           /\ (t.kind = "Deposit" /\ lastResult'.tag = "Ok"
                  /\ t.client_id \notin DOMAIN clients)
                => LET row(kind) == [id |-> t.id, client_id |-> t.client_id,
                                     kind |-> kind, amount |-> ZERO]
                       m2 == Mutate(clients', transactions', row("Dispute"))
                       m3 == Mutate(m2.clients, m2.transactions, row("Chargeback"))
                   IN  /\ m3.result.tag = "Ok"
                       /\ m3.clients[t.client_id]
                            = [id |-> t.client_id, available |-> ZERO,
                               held |-> ZERO, locked |-> TRUE]
                       /\ total(m3.clients[t.client_id]) = ZERO]_vars

\* C12 witness: the third call of a run was a Chargeback that succeeded and
\* left an account that had received a positive Deposit with available 0,
\* held 0, locked.
C12_Witness ==
    /\ steps = 3
    /\ lastTx.kind = "Chargeback"
    /\ lastResult.tag = "Ok"
    /\ transactions[lastTx.id].amount > ZERO
    /\ transactions[lastTx.id].client_id = lastTx.client_id
    /\ disputeStatus[lastTx.id] = "ChargedBack"
    /\ clients[lastTx.client_id]
         = [id |-> lastTx.client_id, available |-> ZERO, held |-> ZERO,
            locked |-> TRUE]

\* The ledger after applying the rows of a stream in order to a new Ledger.
RECURSIVE Replay(_)
Replay(rows) ==
    IF rows = <<>>
    THEN [clients |-> EmptyMap, transactions |-> EmptyMap, refused |-> 0]
    ELSE LET before == Replay(SubSeq(rows, 1, Len(rows) - 1))
             m == Mutate(before.clients, before.transactions, rows[Len(rows)])
         IN  [clients |-> m.clients, transactions |-> m.transactions,
              refused |-> before.refused + IF m.result.tag = "Err" THEN 1 ELSE 0]

\* C13: a row that ledger.mutate refuses does not end the run and changes
\* nothing, the next row is read; after every row the account map is the one
\* the refused rows removed from the stream would have given.
C13_ErrorRowsSkipped ==
    [][(pc = "stream" /\ steps' = steps + 1)
        => /\ accepted' = accepted
                => pc' = "stream" /\ clients' = clients
           /\ Replay(accepted').clients = clients'
           /\ Replay(accepted').refused = 0]_vars

\* C13 witness: the stream has ended with its output written; one of its rows
\* was refused and two, a Withdrawal the later, were applied.
C13_Witness ==
    /\ pc = "done"
    /\ steps = MaxRows
    /\ Len(accepted) = 2
    /\ accepted[2].kind = "Withdrawal"
    /\ \E c \in DOMAIN clients : ApiClient(clients[c]) \in output

\* C14 (as stated): at the end of a stream the account map, and so the output,
\* has an entry for every client id that appeared in a row of the stream.
C14_EntryForEverySeenClient ==
    pc = "done"
    => \A c \in seen :
          /\ c \in DOMAIN clients
          /\ \E record \in output : record.client = c

\* The client ids of the rows mutate accepted.
AcceptedClients == {accepted[i].client_id : i \in DOMAIN accepted}

\* C14 (amended): the account map has an entry exactly for the client ids of
\* the rows mutate accepted, and the output one record for each; an entry is
\* created by the first accepted row of its client, applied to zero balances,
\* unlocked.
C14_EntryForEveryAcceptedClient ==
    [][pc = "stream"
        => /\ DOMAIN clients' = AcceptedClients'
           /\ pc' = "done" => {record.client : record \in output'} = AcceptedClients'
           /\ \A c \in DOMAIN clients' \ DOMAIN clients :
                 LET t == accepted'[Len(accepted')]
                 IN  /\ accepted' = Append(accepted, t)
                     /\ t.client_id = c
                     /\ Ok(clients'[c])
                          = Dispatch(ClientNew(c), transactions, t).result]_vars

\* C14 witness: the stream has ended, the output has a record, and a client
\* whose rows were all refused has no entry.
C14_Witness ==
    /\ pc = "done"
    /\ output # {}
    /\ \E c \in seen : c \notin DOMAIN clients

\* C15: for every Amount a, parsing the text that formatting a produced gives
\* a back.
C15_FormatParseRoundTrip ==
    (pc = "done" /\ src.kind = "amount") => value = OkAmount(src.amount)

AllDigits(t) == t # <<>> /\ \A i \in DOMAIN t : IsDigit(t[i])
\* [-]digits
IntegerText(t) == AllDigits(t) \/ (t # <<>> /\ Head(t) = "-" /\ AllDigits(Tail(t)))
\* the text of a run that started from a text has been parsed into `value`
TextParsed == src.kind = "text" /\ pc \in {"format2", "done"}

\* -w.f with w a digit string and f of 1 to 4 digits
NegativeDecimal(t) ==
    /\ t # <<>>
    /\ Head(t) = "-"
    /\ LET parts == SplitDot(Tail(t))
       IN  /\ Len(parts) = 2
           /\ AllDigits(parts[1])
           /\ AllDigits(parts[2])
           /\ Len(parts[2]) <= 4

\* C16: parse("-w.f") is the negation of parse("w.f"), also when w is 0; and
\* when w.f is not zero the parsed value is < 0 and a transaction carrying it
\* is rejected by the ledger with NegativeTransaction.
C16_SignAppliesToFraction ==
    (TextParsed /\ NegativeDecimal(src.text))
    => LET positive == from_str(Tail(src.text))
       IN  /\ positive.tag = "Ok"
           /\ value = OkAmount(-positive.amount)
           /\ positive.amount > ZERO
                => /\ value.amount < ZERO
                   /\ Mutate(EmptyMap, EmptyMap,
                             [id |-> 1, client_id |-> 1, kind |-> "Deposit",
                              amount |-> value.amount]).result
                        = Err("NegativeTransaction")

\* C17: the empty text gives NoInput; [-]digits.digits with more than 4
\* fraction digits gives PrecisionTooHigh whatever the length; Malformed is
\* returned only when the whole part or the fraction part is not an integer
\* or the fraction after '.' is empty.
C17_ParseErrorClasses ==
    TextParsed
    => LET parts == SplitDot(src.text)
       IN  /\ src.text = <<>> => value = Err("NoInput")
           /\ ( /\ Len(parts) = 2
                /\ IntegerText(parts[1])
                /\ AllDigits(parts[2])
                /\ Len(parts[2]) > 4 )
                => value = Err("PrecisionTooHigh")
           /\ value = Err("Malformed")
                => \/ ~IntegerText(parts[1])
                   \/ Len(parts) >= 2 /\ ~AllDigits(parts[2])

\* C18: the record stored in the history under id k is a Deposit or Withdrawal
\* with id k that mutate accepted: the history changes only by storing the
\* transaction of a successful Deposit/Withdrawal call under its id; a
\* rejected call and a Dispute, Resolve or Chargeback leave it unchanged.
C18_HistoryHoldsAcceptedFunds ==
    [][LET t == lastTx'
       IN  /\ \A k \in DOMAIN transactions' :
                 /\ transactions'[k].id = k
                 /\ transactions'[k].kind \in FundsKind
                 /\ transactions'[k].amount >= ZERO
           /\ transactions' # transactions
                => /\ lastResult'.tag = "Ok"
                   /\ t.kind \in FundsKind
                   /\ transactions' = Insert(transactions, t.id, t)
           /\ (lastResult'.tag = "Err" \/ t.kind \in ReferenceKind)
                => transactions' = transactions
           /\ (lastResult'.tag = "Ok" /\ t.kind \in FundsKind)
                => transactions'[t.id] = t]_vars

\* C18 witness: a Withdrawal was rejected for insufficient funds on an account
\* with funds, and its id is not in the history, which holds another record.
C18_Witness ==
    /\ lastResult = Err("NegativeBalance")
    /\ lastTx.kind = "Withdrawal"
    /\ lastTx.id \notin DOMAIN transactions
    /\ transactions # EmptyMap
    /\ lastTx.client_id \in DOMAIN clients
    /\ clients[lastTx.client_id].available > ZERO

\* C19: a Dispute, Resolve or Chargeback whose client id differs from the
\* client id of the recorded transaction it references changes no account.
C19_ForeignReferenceNoEffect ==
    [][LET t == lastTx'
       IN  ( /\ t.kind \in ReferenceKind
             /\ t.id \in DOMAIN transactions
             /\ transactions[t.id].client_id # t.client_id )
           => clients' = clients]_vars

\* C20 as stated: the rows of two accounts, each a per-account stream of one
\* row, end in the same ledger with the same Results in either interleaving,
\* whatever their transaction ids.
C20_InterleavingsAgree ==
    pc = "paired" => pairRun.ab = pairRun.ba

\* C20 amended: two transactions with different client ids and different
\* transaction ids leave the same account map and the same history and get
\* the same Results in either order.
C20_DifferentAccountsCommute ==
    (pc = "paired" /\ pairRun.a.client_id # pairRun.b.client_id
       /\ pairRun.a.id # pairRun.b.id)
    => /\ pairRun.ab = pairRun.ba
       /\ clients = pairRun.ba.clients
       /\ transactions = pairRun.ba.transactions

\* C20 witness: after a Deposit of one client was recorded, a Withdrawal of
\* that client and a Dispute by the other client of the recorded id, both
\* accepted, were applied as a pair.
C20_Witness ==
    /\ pc = "paired"
    /\ pairRun.a.kind = "Withdrawal"
    /\ pairRun.b.kind = "Dispute"
    /\ pairRun.a.client_id # pairRun.b.client_id
    /\ pairRun.a.id # pairRun.b.id
    /\ pairRun.ab.results[1].tag = "Ok"
    /\ pairRun.ab.results[2].tag = "Ok"
    /\ transactions[pairRun.b.id].client_id = pairRun.a.client_id

\* C21: the total (available + held) of the account of a call that succeeded
\* rises by x on a Deposit of x, falls by x on a Withdrawal of x, falls by the
\* referenced amount on a Chargeback and stays the same on a Dispute or
\* Resolve; no call changes the total of any other account, and a call that
\* failed changes no total.
C21_TotalChanges ==
    [][LET t == lastTx'
           old == Target(t)
       IN  /\ lastResult'.tag = "Ok"
                => LET new == Stored(clients', t.client_id)
                   IN  /\ t.kind = "Deposit"
                            => total(new) = total(old) + t.amount
                       /\ t.kind = "Withdrawal"
                            => total(new) = total(old) - t.amount
                       /\ t.kind = "Chargeback"
                            => total(new) = total(old) - transactions[t.id].amount
                       /\ t.kind \in {"Dispute", "Resolve"}
                            => total(new) = total(old)
           /\ \A c \in DOMAIN clients' :
                 (c # t.client_id \/ lastResult'.tag = "Err")
                    => /\ c \in DOMAIN clients
                       /\ total(clients'[c]) = total(clients[c])]_vars

\* C21 witness: the fourth call of a run was a Resolve that succeeded on the
\* owner's account; the disputed amount is positive, nothing is held any more
\* and the total exceeds the disputed amount.
C21_Witness ==
    /\ lastTx.kind = "Resolve"
    /\ lastResult.tag = "Ok"
    /\ steps = 4
    /\ lastTx.id \in DOMAIN disputeStatus
    /\ disputeStatus[lastTx.id] = "Resolved"
    /\ transactions[lastTx.id].client_id = lastTx.client_id
    /\ transactions[lastTx.id].amount > ZERO
    /\ clients[lastTx.client_id].held = ZERO
    /\ total(clients[lastTx.client_id]) > transactions[lastTx.id].amount

====
